---- MODULE Spec2Model ----
(***************************************************************************)
(* The handle protocol of the Nickel C API (include/nickel_lang.h) as used *)
(* by go-nickel: expression handles, borrowed views, error objects, string *)
(* buffers, the two evaluation depths and the serializers.                 *)
(***************************************************************************)
EXTENDS Integers, Sequences, FiniteSets, TLC

(* ------------------------------------------------------------------ *)
(* Bounds of the model                                                 *)
(* ------------------------------------------------------------------ *)
NumExprs == 2
NumViews == 1
NumErrors == 1
NumStrings == 2
NumPtrs == 2
NumCtxs == 2
NumSinks == 2

(* ------------------------------------------------------------------ *)
(* Enumerations of the header                                          *)
(* ------------------------------------------------------------------ *)
NICKEL_RESULT_OK == 0
NICKEL_RESULT_ERR == 1

NICKEL_ERROR_FORMAT_TEXT == 0
NICKEL_ERROR_FORMAT_ANSI_TEXT == 1
NICKEL_ERROR_FORMAT_JSON == 2
NICKEL_ERROR_FORMAT_YAML == 3
NICKEL_ERROR_FORMAT_TOML == 4

nickel_result == {NICKEL_RESULT_OK, NICKEL_RESULT_ERR}
nickel_error_format == {NICKEL_ERROR_FORMAT_TEXT, NICKEL_ERROR_FORMAT_ANSI_TEXT,
                        NICKEL_ERROR_FORMAT_JSON, NICKEL_ERROR_FORMAT_YAML,
                        NICKEL_ERROR_FORMAT_TOML}

(* NULL, as a handle argument *)
NULL == 0

(* ------------------------------------------------------------------ *)
(* The evaluator's terms.  A source text denotes a tree of nodes; a    *)
(* node is a constructor (null, bool, number, string, enum tag, enum   *)
(* variant, record, array) or a computation that still has to run      *)
(* (lazy), which may fail.  A record field may have no value (kid      *)
(* NoNode) and may be marked not_exported (hidden).                    *)
(* ------------------------------------------------------------------ *)
NoNode == "none"
NoCause == "ok"

Leaf(t, lz, v) ==
    [tag |-> t, lazy |-> lz, fails |-> FALSE, cause |-> NoCause,
     keys |-> << >>, kids |-> << >>, hidden |-> << >>, val |-> v]

Node ==
    [ r1   |-> [tag |-> "record", lazy |-> FALSE, fails |-> FALSE, cause |-> NoCause,
                keys |-> <<"a", "b">>, kids |-> <<"sum", "arr">>,
                hidden |-> <<FALSE, FALSE>>, val |-> ""],
      sum  |-> Leaf("number", TRUE, "2"),
      arr  |-> [tag |-> "array", lazy |-> FALSE, fails |-> FALSE, cause |-> NoCause,
                keys |-> << >>, kids |-> <<"one", "two">>,
                hidden |-> << >>, val |-> ""],
      one  |-> Leaf("number", FALSE, "1"),
      two  |-> Leaf("number", FALSE, "2"),
      r2   |-> [tag |-> "record", lazy |-> FALSE, fails |-> FALSE, cause |-> NoCause,
                keys |-> <<"v", "h">>, kids |-> <<"some", "yes">>,
                hidden |-> <<FALSE, TRUE>>, val |-> ""],
      some |-> [tag |-> "enum_variant", lazy |-> FALSE, fails |-> FALSE, cause |-> NoCause,
                keys |-> << >>, kids |-> <<"sum">>,
                hidden |-> << >>, val |-> "Some"],
      yes  |-> Leaf("bool", FALSE, "true"),
      r3   |-> [tag |-> "record", lazy |-> FALSE, fails |-> FALSE, cause |-> NoCause,
                keys |-> <<"z", "f">>, kids |-> <<NoNode, "div">>,
                hidden |-> <<FALSE, FALSE>>, val |-> ""],
      div  |-> [tag |-> "number", lazy |-> TRUE, fails |-> TRUE, cause |-> "division by zero",
                keys |-> << >>, kids |-> << >>, hidden |-> << >>, val |-> ""],
      nul  |-> Leaf("null", FALSE, "null"),
      hi   |-> Leaf("string", FALSE, <<"h", "i">>),
      foo  |-> Leaf("enum_tag", FALSE, <<"F", "o", "o">>),
      third |-> Leaf("number", FALSE, "1/3"),
      imax  |-> Leaf("number", FALSE, "9223372036854775807"),
      imax1 |-> Leaf("number", FALSE, "9223372036854775808"),
      imin  |-> Leaf("number", FALSE, "-9223372036854775808"),
      imin1 |-> Leaf("number", FALSE, "-9223372036854775809"),
      mhalf |-> Leaf("number", FALSE, "-7/2") ]

Nodes == DOMAIN Node

(* The source texts the callers pass, and the term each parses to. *)
Parse ==
    [ p1 |-> "r1",      \* { a = 1 + 1, b = [1, 2] }
      p2 |-> "r2",      \* { v = 'Some (1 + 1), h | not_exported = true }
      p3 |-> "r3",      \* { z, f = 1 / 0 }
      p4 |-> NoNode,    \* {            (does not parse)
      p5 |-> "hi",      \* "hi"
      p6 |-> "foo",     \* 'Foo
      p7 |-> "yes",     \* true
      p8 |-> "some",    \* 'Some (1 + 1)
      p9 |-> "one",     \* 1
      p10 |-> "nul",    \* null
      n1 |-> "third",   \* 1 / 3
      n2 |-> "imax",    \* 9223372036854775807
      n3 |-> "imax1",   \* 9223372036854775807 + 1
      n4 |-> "imin",    \* -9223372036854775808
      n5 |-> "imin1",   \* -9223372036854775808 - 1
      n6 |-> "mhalf",   \* -7 / 2
      t1 |-> "one",     \* std.trace "abcd" 1
      t2 |-> "r3" ]     \* std.trace "xy" (std.trace "z" { z, f = 1 / 0 })

(* The messages the evaluation of a source text traces, in order. *)
TraceOf ==
    [src \in DOMAIN Parse |->
        IF src = "t1" THEN << <<"a", "b", "c", "d">> >>
        ELSE IF src = "t2" THEN << <<"x", "y">>, <<"z">> >>
        ELSE << >>]

Srcs == {"p1", "p2", "p3", "p4"}

(* Sources that are numbers. *)
NumSrcs == {"p9", "n1", "n2", "n3", "n4", "n5", "n6"}

(* Sources of every kind of value, for the callers of the accessors. *)
AccSrcs == {"p1", "p5", "p6", "p7", "p8", "p9", "p10"}

(* The names nickel_context_set_source_name is called with. *)
SourceNames == {"main.ncl"}
NoName == ""

(* ------------------------------------------------------------------ *)
(* The contents of an expression handle: a term and how far it has     *)
(* been evaluated ("thunk": not yet, "whnf": its head only, "deep":    *)
(* all of it, "export": all of it, not_exported fields dropped).       *)
(* ------------------------------------------------------------------ *)
Compound(n) == Node[n].tag \in {"record", "array", "enum_variant"}

(* Some record at or below n has a not_exported field. *)
RECURSIVE HasHidden(_)
HasHidden(n) ==
    LET nd == Node[n]
    IN \E i \in 1..Len(nd.kids) :
          \/ nd.tag = "record" /\ nd.hidden[i]
          \/ nd.kids[i] # NoNode /\ HasHidden(nd.kids[i])

(* A scalar has nothing below its head, and a term with no            *)
(* not_exported field exports to what it deeply evaluates to.         *)
Content(n, m) ==
    IF m # "thunk" /\ ~Compound(n) THEN [node |-> n, mode |-> "whnf"]
    ELSE IF m = "export" /\ ~HasHidden(n) THEN [node |-> n, mode |-> "deep"]
    ELSE [node |-> n, mode |-> m]

NullContent == [node |-> "nul", mode |-> "whnf"]
NoContent == [node |-> NoNode, mode |-> "thunk"]

(* Faulty variant: the fields of a shallow result are forced with it. *)
ChildContentForced(c, kid) ==
    IF c.mode \in {"deep", "export"}
    THEN Content(kid, c.mode)
    ELSE Content(kid, "whnf")

(* The contents a child of c has when read out of c. *)
ChildContent(c, kid) ==
    IF c.mode \in {"deep", "export"}
    THEN Content(kid, c.mode)
    ELSE Content(kid, IF Node[kid].lazy THEN "thunk" ELSE "whnf")

(* Faulty variant: the result for export shows every field. *)
VisibleAll(c) == [i \in 1..Len(Node[c.node].kids) |-> i]

(* The positions of node n's fields that contents c shows, in order. *)
Visible(c) ==
    LET n == Node[c.node]
        Keep(i) == ~(c.mode = "export" /\ n.tag = "record" /\ n.hidden[i])
    IN SelectSeq([i \in 1..Len(n.kids) |-> i], Keep)

(* ------------------------------------------------------------------ *)
(* Classification predicates                                           *)
(* ------------------------------------------------------------------ *)
TagOf(c) == IF c.mode = "thunk" THEN "unevaluated" ELSE Node[c.node].tag

ValueTags == {"null", "bool", "number", "string", "enum_tag", "enum_variant",
              "record", "array"}

is_value(c) == TagOf(c) \in ValueTags
is_null(c) == TagOf(c) = "null"
is_bool(c) == TagOf(c) = "bool"
is_number(c) == TagOf(c) = "number"
is_str(c) == TagOf(c) = "string"
(* Faulty variant: an enum variant counts as an enum tag too. *)
is_enum_tag_any(c) == TagOf(c) \in {"enum_tag", "enum_variant"}

is_enum_tag(c) == TagOf(c) = "enum_tag"
is_enum_variant(c) == TagOf(c) = "enum_variant"
is_record(c) == TagOf(c) = "record"
is_array(c) == TagOf(c) = "array"

(* ------------------------------------------------------------------ *)
(* Numbers: exact rationals in lowest terms, the numerator's magnitude *)
(* and the denominator as decimal digits, most significant first.      *)
(* ------------------------------------------------------------------ *)
Rational ==
    [ one   |-> [neg |-> FALSE, num |-> <<1>>, den |-> <<1>>],
      two   |-> [neg |-> FALSE, num |-> <<2>>, den |-> <<1>>],
      sum   |-> [neg |-> FALSE, num |-> <<2>>, den |-> <<1>>],
      third |-> [neg |-> FALSE, num |-> <<1>>, den |-> <<3>>],
      imax  |-> [neg |-> FALSE, den |-> <<1>>,
                 num |-> <<9,2,2,3,3,7,2,0,3,6,8,5,4,7,7,5,8,0,7>>],
      imax1 |-> [neg |-> FALSE, den |-> <<1>>,
                 num |-> <<9,2,2,3,3,7,2,0,3,6,8,5,4,7,7,5,8,0,8>>],
      imin  |-> [neg |-> TRUE, den |-> <<1>>,
                 num |-> <<9,2,2,3,3,7,2,0,3,6,8,5,4,7,7,5,8,0,8>>],
      imin1 |-> [neg |-> TRUE, den |-> <<1>>,
                 num |-> <<9,2,2,3,3,7,2,0,3,6,8,5,4,7,7,5,8,0,9>>],
      mhalf |-> [neg |-> TRUE, num |-> <<7>>, den |-> <<2>>] ]

(* The magnitudes of INT64_MAX and of INT64_MIN. *)
I64MaxDigits == <<9,2,2,3,3,7,2,0,3,6,8,5,4,7,7,5,8,0,7>>
I64MinDigits == <<9,2,2,3,3,7,2,0,3,6,8,5,4,7,7,5,8,0,8>>

(* a <= b, for magnitudes without leading zeros. *)
RECURSIVE DigitsLeq(_, _)
DigitsLeq(a, b) ==
    IF Len(a) # Len(b) THEN Len(a) < Len(b)
    ELSE IF a = << >> THEN TRUE
    ELSE IF Head(a) # Head(b) THEN Head(a) < Head(b)
    ELSE DigitsLeq(Tail(a), Tail(b))

(* Faulty variant: the magnitude of INT64_MIN is allowed on both sides. *)
nickel_number_is_i64_symmetric(c) ==
    LET q == Rational[c.node]
    IN q.den = <<1>> /\ DigitsLeq(q.num, I64MinDigits)

(* Is the number of contents c an integer within the range of int64_t? *)
nickel_number_is_i64(c) ==
    LET q == Rational[c.node]
    IN /\ q.den = <<1>>
       /\ DigitsLeq(q.num, IF q.neg THEN I64MinDigits ELSE I64MaxDigits)

(* A magnitude as a decimal string: its characters. *)
DigitChars == <<"0", "1", "2", "3", "4", "5", "6", "7", "8", "9">>
Decimal(neg, digits) ==
    (IF neg THEN <<"-">> ELSE << >>) \o [i \in 1..Len(digits) |-> DigitChars[digits[i] + 1]]

(* ------------------------------------------------------------------ *)
(* The evaluator                                                       *)
(* ------------------------------------------------------------------ *)
Min(S) == CHOOSE x \in S : \A y \in S : x <= y

(* Why forcing all of n fails, or NoCause: n itself, then its fields in *)
(* order; a field with no value cannot be forced.  x: not_exported      *)
(* fields are ignored.                                                  *)
RECURSIVE DeepCause(_, _)
DeepCause(n, x) ==
    IF Node[n].fails THEN Node[n].cause
    ELSE LET nd == Node[n]
             Seen(i) == ~(x /\ nd.tag = "record" /\ nd.hidden[i])
             why == [i \in 1..Len(nd.kids) |->
                       IF ~Seen(i) THEN NoCause
                       ELSE IF nd.kids[i] = NoNode THEN "missing definition"
                       ELSE DeepCause(nd.kids[i], x)]
             bad == {i \in 1..Len(nd.kids) : why[i] # NoCause}
         IN IF bad = {} THEN NoCause ELSE why[Min(bad)]

Ok(c) == [ok |-> TRUE, value |-> c, cause |-> NoCause, ran |-> TRUE]
Failure(why) == [ok |-> FALSE, value |-> NoContent, cause |-> why, ran |-> TRUE]

(* Faulty variant: only the head is forced, whatever the depth asked for. *)
EvalSourceHeadOnly(src, m) ==
    LET n == Parse[src]
    IN IF n = NoNode THEN Failure("parse error")
       ELSE IF Node[n].fails THEN Failure(Node[n].cause)
       ELSE Ok(Content(n, m))

(* Evaluating a source text to depth m ("whnf", "deep" or "export"). *)
EvalSource(src, m) ==
    LET n == Parse[src]
    IN IF n = NoNode THEN Failure("parse error")
       ELSE IF Node[n].fails THEN Failure(Node[n].cause)
       ELSE IF m = "whnf" THEN Ok(Content(n, "whnf"))
       ELSE LET why == DeepCause(n, m = "export")
            IN IF why = NoCause THEN Ok(Content(n, m)) ELSE Failure(why)

(* Faulty variant: the evaluator runs on values too, and returns their head. *)
EvalExprShallowAlways(c) ==
    IF Node[c.node].fails THEN Failure(Node[c.node].cause)
    ELSE Ok(Content(c.node, "whnf"))

(* Evaluating the contents of a handle to weak head normal form: no    *)
(* effect, and no evaluation, when they are a value already.           *)
EvalExprShallowResult(c) ==
    IF is_value(c) THEN [Ok(c) EXCEPT !.ran = FALSE]
    ELSE IF Node[c.node].fails THEN Failure(Node[c.node].cause)
    ELSE Ok(Content(c.node, "whnf"))

(* ------------------------------------------------------------------ *)
(* Serialization (nickel_context_expr_to_json / to_yaml / to_toml)     *)
(* ------------------------------------------------------------------ *)
ExportFormats == {"json", "yaml", "toml"}

(* Faulty variant: only the head of the value is looked at. *)
SerializeCauseHead(c) ==
    IF ~is_value(c) THEN "unevaluated expression"
    ELSE IF is_enum_variant(c) THEN "non-serializable enum variant"
    ELSE NoCause

(* Why contents c cannot be serialized, or NoCause. *)
RECURSIVE SerializeCause(_)
SerializeCause(c) ==
    IF ~is_value(c) THEN "unevaluated expression"
    ELSE IF is_enum_variant(c) THEN "non-serializable enum variant"
    ELSE LET nd == Node[c.node]
             vis == Visible(c)
             why == [j \in 1..Len(vis) |->
                       IF nd.kids[vis[j]] = NoNode THEN "unevaluated expression"
                       ELSE SerializeCause(ChildContent(c, nd.kids[vis[j]]))]
             bad == {j \in 1..Len(vis) : why[j] # NoCause}
         IN IF bad = {} THEN NoCause ELSE why[Min(bad)]

(* The text of contents c: a sequence of tokens of the format. *)
RECURSIVE Tokens(_, _), TokensFrom(_, _, _)
Tokens(c, fmt) ==
    LET nd == Node[c.node]
    IN IF nd.tag = "record" THEN <<fmt, "{">> \o TokensFrom(c, fmt, 1) \o <<"}">>
       ELSE IF nd.tag = "array" THEN <<fmt, "[">> \o TokensFrom(c, fmt, 1) \o <<"]">>
       ELSE <<nd.val>>

(* The members of a record or an array from the j-th visible one on. *)
TokensFrom(c, fmt, j) ==
    LET nd == Node[c.node]
        vis == Visible(c)
    IN IF j > Len(vis) THEN << >>
       ELSE (IF j > 1 THEN <<",">> ELSE << >>)
            \o (IF nd.tag = "record" THEN <<nd.keys[vis[j]], ":">> ELSE << >>)
            \o Tokens(ChildContent(c, nd.kids[vis[j]]), fmt)
            \o TokensFrom(c, fmt, j + 1)

SerializeResult(c, fmt) ==
    LET why == SerializeCause(c)
    IN IF why = NoCause
       THEN [ok |-> TRUE, text |-> Tokens(c, fmt), cause |-> NoCause]
       ELSE [ok |-> FALSE, text |-> << >>, cause |-> why]

(* ------------------------------------------------------------------ *)
(* State                                                               *)
(* ------------------------------------------------------------------ *)
Exprs == 1..NumExprs
Views == 1..NumViews
Errors == 1..NumErrors
Strings == 1..NumStrings
Ptrs == 1..NumPtrs
Ctxs == 1..NumCtxs
Sinks == 1..NumSinks

VARIABLES
    exprLive,     \* exprLive[h]: h is allocated (nickel_expr_alloc, not yet freed)
    expr,         \* expr[h]: the contents of expression handle h
    views,        \* views[v]: the Number/Record/Array pointer the caller keeps in v
    errLive,      \* errLive[e]: e is allocated (nickel_error_alloc)
    err,          \* err[e]: the diagnostic e holds, or NoDiag
    strLive,      \* strLive[s]: s is allocated (nickel_string_alloc)
    str,          \* str[s]: the data of string s
    source_name,  \* source_name[c]: context c's name of the main input program
    seen,         \* a rendering of an error the caller has kept, or NoSeen
    last,         \* the last call: its arguments and what it returned
    panicked,     \* a call has panicked: the process is gone
    data,         \* data[p]: the pointer to string contents the caller keeps in p
    sink,         \* sink[c]: the user_data of context c's trace callback, or NULL
    run           \* run[c]: the evaluation in progress on context c, or NoRun

vars == <<exprLive, expr, views, errLive, err, strLive, str, source_name, seen, last,
          panicked, data, sink, run>>

(* What the calls that do not trace leave alone. *)
trace == <<sink, run>>

(* What the calls on handles leave alone. *)
rest == <<panicked, data, trace>>

(* ------------------------------------------------------------------ *)
(* Diagnostics and their rendering                                    *)
(* ------------------------------------------------------------------ *)
NoDiag == [cause |-> NoCause, name |-> NoName]
Diag(why, name) == [cause |-> why, name |-> name]

(* Faulty variant: the file name is the one the context has now. *)
RenderAmbient(d, format) ==
    IF format = NICKEL_ERROR_FORMAT_TEXT THEN <<"error: ", d.cause, source_name[Min(Ctxs)]>>
    ELSE IF format = NICKEL_ERROR_FORMAT_ANSI_TEXT
         THEN <<"ESC[31m", "error: ", "ESC[0m", d.cause, source_name[Min(Ctxs)]>>
    ELSE IF format = NICKEL_ERROR_FORMAT_JSON
         THEN <<"{", "message", ":", d.cause, ",", "file", ":", source_name[Min(Ctxs)], "}">>
    ELSE IF format = NICKEL_ERROR_FORMAT_YAML
         THEN <<"message", ":", d.cause, "file", ":", source_name[Min(Ctxs)]>>
    ELSE <<"message", "=", d.cause, "file", "=", source_name[Min(Ctxs)]>>

Render(d, format) ==
    IF format = NICKEL_ERROR_FORMAT_TEXT THEN <<"error: ", d.cause, d.name>>
    ELSE IF format = NICKEL_ERROR_FORMAT_ANSI_TEXT
         THEN <<"ESC[31m", "error: ", "ESC[0m", d.cause, d.name>>
    ELSE IF format = NICKEL_ERROR_FORMAT_JSON
         THEN <<"{", "message", ":", d.cause, ",", "file", ":", d.name, "}">>
    ELSE IF format = NICKEL_ERROR_FORMAT_YAML
         THEN <<"message", ":", d.cause, "file", ":", d.name>>
    ELSE <<"message", "=", d.cause, "file", "=", d.name>>

NoView == [owner |-> NULL, valid |-> FALSE]

(* A pointer to string contents: into a nickel_string ("string") or   *)
(* to an interned string ("interned"), got from handle owner.          *)
NoData == [kind |-> "none", owner |-> NULL, valid |-> FALSE]

NoCall ==
    [op |-> "none", ret |-> 0, src |-> "", expr |-> NULL, out |-> NULL, err |-> NULL,
     ran |-> FALSE, diag |-> NoDiag, value |-> NoContent, text |-> << >>, key |-> "",
     format |-> NICKEL_ERROR_FORMAT_TEXT, idx |-> 0, panic |-> FALSE, ptr |-> NULL,
     ctx |-> NULL]

(* An evaluation in progress: the call and its arguments, the trace   *)
(* messages it has still to emit, and of the first of them the bytes   *)
(* the writer has got rid of (off), the bytes the callback consumed    *)
(* (sent), and whether the callback is running (busy).                 *)
NoRun ==
    [active |-> FALSE, op |-> "none", src |-> "", out |-> NULL, err |-> NULL,
     msgs |-> << >>, off |-> 0, sent |-> << >>, busy |-> FALSE]

NoSeen == [err |-> NULL, format |-> NICKEL_ERROR_FORMAT_TEXT, diag |-> NoDiag, text |-> << >>]

Call(op, ret) == [NoCall EXCEPT !.op = op, !.ret = ret]

Init ==
    /\ exprLive = [h \in Exprs |-> FALSE]
    /\ expr = [h \in Exprs |-> NoContent]
    /\ views = [v \in Views |-> NoView]
    /\ errLive = [e \in Errors |-> FALSE]
    /\ err = [e \in Errors |-> NoDiag]
    /\ strLive = [s \in Strings |-> FALSE]
    /\ str = [s \in Strings |-> << >>]
    /\ source_name = [c \in Ctxs |-> NoName]
    /\ seen = NoSeen
    /\ last = NoCall
    /\ panicked = FALSE
    /\ data = [p \in Ptrs |-> NoData]
    /\ sink = [c \in Ctxs |-> NULL]
    /\ run = [c \in Ctxs |-> NoRun]

LiveExprs == {h \in Exprs : exprLive[h]}
LiveErrors == {e \in Errors : errLive[e]}
LiveStrings == {s \in Strings : strLive[s]}

(* A view is usable while the handle it borrows from is neither *)
(* overwritten nor freed.                                        *)
ValidView(v) == views[v].owner # NULL /\ views[v].valid
ViewContent(v) == expr[views[v].owner]

(* Faulty variant: the views outlive the storage they point into. *)
InvalidateNothing(h) == views

(* The views after handle h is overwritten or freed. *)
Invalidate(h) ==
    [v \in Views |->
        IF views[v].owner = h THEN [views[v] EXCEPT !.valid = FALSE] ELSE views[v]]

(* Faulty variant: the result goes into a handle allocated for it. *)
StoreAllocating(h, c) ==
    LET free == Exprs \ LiveExprs
        k == IF h = NULL \/ free = {} THEN h ELSE Min(free)
    IN /\ exprLive' = IF k = NULL THEN exprLive ELSE [exprLive EXCEPT ![k] = TRUE]
       /\ IF k = NULL
          THEN UNCHANGED <<expr, views>>
          ELSE /\ expr' = [expr EXCEPT ![k] = c]
               /\ views' = Invalidate(k)

(* Replacing the contents of handle h (NULL: nowhere) by c, in place: *)
(* no handle is allocated, and what was borrowed from h is gone.       *)
Store(h, c) ==
    /\ exprLive' = exprLive
    /\ IF h = NULL
       THEN UNCHANGED <<expr, views>>
       ELSE /\ expr' = [expr EXCEPT ![h] = c]
            /\ views' = Invalidate(h)

(* The caller keeps the pointer a call gave in its variable p, or     *)
(* drops it (p = NULL).                                                *)
KeepData(p, kind, owner) ==
    data' = IF p = NULL THEN data
            ELSE [data EXCEPT ![p] = [kind |-> kind, owner |-> owner, valid |-> TRUE]]

(* Faulty variant: the contents outlive the string. *)
InvalidateNoData(S) == data

(* The pointers after the strings of S are overwritten or freed: what *)
(* nickel_string_data gave for them is gone.                           *)
InvalidateData(S) ==
    [p \in Ptrs |->
        IF data[p].kind = "string" /\ data[p].owner \in S
        THEN [data[p] EXCEPT !.valid = FALSE] ELSE data[p]]

(* Faulty variant: an error that holds a diagnostic keeps it. *)
SaveErrorOnce(e, d) ==
    IF e = NULL \/ err[e] # NoDiag THEN UNCHANGED err ELSE err' = [err EXCEPT ![e] = d]

(* Saving the diagnostic d in error e (NULL: nowhere). *)
SaveError(e, d) ==
    IF e = NULL THEN UNCHANGED err ELSE err' = [err EXCEPT ![e] = d]

(* ------------------------------------------------------------------ *)
(* Allocation                                                          *)
(* ------------------------------------------------------------------ *)
nickel_expr_alloc ==
    /\ LiveExprs # Exprs
    /\ LET h == Min(Exprs \ LiveExprs)
       IN /\ exprLive' = [exprLive EXCEPT ![h] = TRUE]
          /\ expr' = [expr EXCEPT ![h] = NullContent]
          /\ last' = [Call("nickel_expr_alloc", h) EXCEPT !.out = h]
    /\ UNCHANGED <<views, errLive, err, strLive, str, source_name, seen, rest>>

(* Faulty variant: handles filled from a view of h share its storage. *)
nickel_expr_free_shared(h) ==
    /\ exprLive[h]
    /\ exprLive' = [exprLive EXCEPT ![h] = FALSE]
    /\ expr' = [k \in Exprs |->
                  IF k = h THEN NoContent
                  ELSE IF exprLive[k] /\ \E v \in Views : views[v].owner = h
                       THEN NullContent ELSE expr[k]]
    /\ views' = Invalidate(h)
    /\ last' = [Call("nickel_expr_free", 0) EXCEPT !.expr = h]
    /\ UNCHANGED <<errLive, err, strLive, str, source_name, seen, rest>>

nickel_expr_free(h) ==
    /\ exprLive[h]
    /\ exprLive' = [exprLive EXCEPT ![h] = FALSE]
    /\ expr' = [expr EXCEPT ![h] = NoContent]
    /\ views' = Invalidate(h)
    /\ last' = [Call("nickel_expr_free", 0) EXCEPT !.expr = h]
    /\ UNCHANGED <<errLive, err, strLive, str, source_name, seen, rest>>

nickel_error_alloc ==
    /\ LiveErrors # Errors
    /\ LET e == Min(Errors \ LiveErrors)
       IN /\ errLive' = [errLive EXCEPT ![e] = TRUE]
          /\ err' = [err EXCEPT ![e] = NoDiag]
          /\ last' = [Call("nickel_error_alloc", e) EXCEPT !.err = e]
    /\ UNCHANGED <<exprLive, expr, views, strLive, str, source_name, seen, rest>>

nickel_error_free(e) ==
    /\ errLive[e]
    /\ errLive' = [errLive EXCEPT ![e] = FALSE]
    /\ err' = [err EXCEPT ![e] = NoDiag]
    /\ last' = [Call("nickel_error_free", 0) EXCEPT !.err = e]
    /\ UNCHANGED <<exprLive, expr, views, strLive, str, source_name, seen, rest>>

nickel_string_alloc ==
    /\ LiveStrings # Strings
    /\ LET s == Min(Strings \ LiveStrings)
       IN /\ strLive' = [strLive EXCEPT ![s] = TRUE]
          /\ str' = [str EXCEPT ![s] = << >>]
          /\ last' = Call("nickel_string_alloc", s)
    /\ UNCHANGED <<exprLive, expr, views, errLive, err, source_name, seen, rest>>

nickel_string_free(s) ==
    /\ strLive[s]
    /\ strLive' = [strLive EXCEPT ![s] = FALSE]
    /\ str' = [str EXCEPT ![s] = << >>]
    /\ data' = InvalidateData({s})
    /\ last' = [Call("nickel_string_free", 0) EXCEPT !.out = s]
    /\ UNCHANGED <<exprLive, expr, views, errLive, err, source_name, seen, panicked, trace>>

(* Faulty variant: the name is kept in one place for all contexts. *)
nickel_context_set_source_name_global(ctx, name) ==
    /\ source_name' = [c \in Ctxs |-> name]
    /\ last' = [Call("nickel_context_set_source_name", 0) EXCEPT !.ctx = ctx]
    /\ UNCHANGED <<exprLive, expr, views, errLive, err, strLive, str, seen, rest>>

nickel_context_set_source_name(ctx, name) ==
    /\ source_name' = [source_name EXCEPT ![ctx] = name]
    /\ last' = [Call("nickel_context_set_source_name", 0) EXCEPT !.ctx = ctx]
    /\ UNCHANGED <<exprLive, expr, views, errLive, err, strLive, str, seen, rest>>

(* ------------------------------------------------------------------ *)
(* Tracing: the evaluator hands what std.trace prints to the context's *)
(* trace callback, if it has one.                                      *)
(* ------------------------------------------------------------------ *)
held == <<exprLive, expr, views, errLive, err, strLive, str, source_name, seen,
          panicked, data>>

nickel_context_set_trace_callback(ctx, user_data) ==
    /\ ~run[ctx].active
    /\ sink' = [sink EXCEPT ![ctx] = user_data]
    /\ last' = [Call("nickel_context_set_trace_callback", 0)
                   EXCEPT !.ctx = ctx, !.out = user_data]
    /\ UNCHANGED <<held, run>>

(* The callback behind the trampoline, which consumes the first n     *)
(* bytes of buf: who was called and with what, what it took, what it   *)
(* returns.                                                            *)
traceCallback(context, buf, len, n) ==
    [context |-> context, buf |-> buf, len |-> len,
     bytes |-> SubSeq(buf, 1, n), ret |-> n]

(* Faulty variant: the whole buffer is reported as consumed. *)
traceCallbackTrampolineAll(context, buf, len, n) ==
    [traceCallback(context, buf, len, n) EXCEPT !.ret = len]

(* Faulty variant: the callback is handed one process-wide context. *)
traceCallbackTrampolineShared(context, buf, len, n) ==
    traceCallback(1, buf, len, n)

(* Faulty variant: after a short count the rest is handed over again, *)
(* until the callback has taken it all.                                *)
traceCallbackTrampolineRetrying(context, buf, len, n) ==
    IF n = 0 THEN traceCallback(context, buf, len, n)
    ELSE [traceCallback(context, buf, len, n) EXCEPT !.bytes = buf, !.ret = len]

traceCallbackTrampoline(context, buf, len, n) ==
    traceCallback(context, buf, len, n)

(* An evaluation call is entered: the messages it will trace. *)
EvalEnter(op, ctx, src, out_expr, out_error) ==
    /\ ~run[ctx].active
    /\ run' = [run EXCEPT ![ctx] =
                  [NoRun EXCEPT !.active = TRUE, !.op = op, !.src = src, !.out = out_expr,
                                !.err = out_error, !.msgs = TraceOf[src]]]
    /\ last' = [Call("enter", 0) EXCEPT !.ctx = ctx, !.src = src, !.key = op]
    /\ UNCHANGED <<held, sink>>

(* No trace callback: the message is dropped. *)
TraceDiscard(ctx) ==
    /\ run[ctx].active /\ run[ctx].msgs # << >>
    /\ sink[ctx] = NULL
    /\ run' = [run EXCEPT ![ctx].msgs = Tail(@)]
    /\ last' = [Call("discard", 0) EXCEPT !.ctx = ctx]
    /\ UNCHANGED <<held, sink>>

(* What is left of the message is offered to the write callback. *)
TraceOffer(ctx) ==
    /\ run[ctx].active /\ run[ctx].msgs # << >>
    /\ sink[ctx] # NULL
    /\ ~run[ctx].busy
    /\ run[ctx].off < Len(Head(run[ctx].msgs))
    /\ run' = [run EXCEPT ![ctx].busy = TRUE]
    /\ last' = [Call("offer", 0)
                   EXCEPT !.ctx = ctx, !.out = sink[ctx],
                          !.idx = Len(Head(run[ctx].msgs)) - run[ctx].off]
    /\ UNCHANGED <<held, sink>>

(* The write callback returns, having consumed n bytes: the writer     *)
(* goes on after as many bytes as it returned.                         *)
TraceWrite(ctx, n) ==
    /\ run[ctx].active /\ run[ctx].busy
    /\ LET msg == Head(run[ctx].msgs)
           buf == SubSeq(msg, run[ctx].off + 1, Len(msg))
           r == traceCallbackTrampoline(sink[ctx], buf, Len(buf), n)
       IN /\ n <= Len(buf)
          /\ run' = [run EXCEPT ![ctx].busy = FALSE,
                                ![ctx].off = @ + r.ret,
                                ![ctx].sent = @ \o r.bytes]
          /\ last' = [Call("nickel_write_callback", r.ret)
                         EXCEPT !.ctx = ctx, !.out = r.context, !.text = r.bytes,
                                !.idx = Len(buf)]
    /\ UNCHANGED <<held, sink>>

(* The message is out: the flush callback marks its end. *)
TraceFlush(ctx) ==
    /\ run[ctx].active /\ run[ctx].msgs # << >>
    /\ sink[ctx] # NULL
    /\ ~run[ctx].busy
    /\ run[ctx].off >= Len(Head(run[ctx].msgs))
    /\ run' = [run EXCEPT ![ctx].msgs = Tail(@), ![ctx].off = 0, ![ctx].sent = << >>]
    /\ last' = [Call("nickel_flush_callback", 0)
                   EXCEPT !.ctx = ctx, !.out = sink[ctx], !.text = run[ctx].sent]
    /\ UNCHANGED <<held, sink>>

(* The evaluation in progress on ctx has nothing left to trace. *)
Traced(ctx, op) == run[ctx].active /\ run[ctx].op = op /\ run[ctx].msgs = << >>

(* ------------------------------------------------------------------ *)
(* Evaluation                                                          *)
(* ------------------------------------------------------------------ *)
(* What every evaluation call does with the evaluator's result r:     *)
(* success replaces the value at out_expr, failure the one at          *)
(* out_error, each if non-NULL.                                        *)
(* Faulty variant: a failure nobody asked the diagnostic of is not reported. *)
FinishQuiet(op, ctx, r, src, in, out_expr, out_error) ==
    LET ok == r.ok \/ out_error = NULL
    IN /\ IF r.ok
          THEN Store(out_expr, r.value) /\ UNCHANGED err
          ELSE /\ SaveError(out_error, Diag(r.cause, source_name[ctx]))
               /\ UNCHANGED <<exprLive, expr, views>>
       /\ last' = [Call(op, IF ok THEN NICKEL_RESULT_OK ELSE NICKEL_RESULT_ERR)
                      EXCEPT !.ctx = ctx, !.src = src, !.expr = in, !.out = out_expr,
                             !.err = out_error, !.ran = r.ran, !.value = r.value,
                             !.diag = IF r.ok THEN NoDiag ELSE Diag(r.cause, source_name[ctx])]
       /\ run' = [run EXCEPT ![ctx] = NoRun]
    /\ UNCHANGED <<errLive, strLive, str, source_name, seen, panicked, data, sink>>

(* Faulty variant: a failure leaves the output cleared, with its views. *)
FinishClearing(op, ctx, r, src, in, out_expr, out_error) ==
    /\ IF r.ok
       THEN Store(out_expr, r.value) /\ UNCHANGED err
       ELSE /\ SaveError(out_error, Diag(r.cause, source_name[ctx]))
            /\ Store(out_expr, NullContent)
    /\ last' = [Call(op, IF r.ok THEN NICKEL_RESULT_OK ELSE NICKEL_RESULT_ERR)
                   EXCEPT !.ctx = ctx, !.src = src, !.expr = in, !.out = out_expr,
                          !.err = out_error, !.ran = r.ran, !.value = r.value,
                          !.diag = IF r.ok THEN NoDiag ELSE Diag(r.cause, source_name[ctx])]
    /\ run' = [run EXCEPT ![ctx] = NoRun]
    /\ UNCHANGED <<errLive, strLive, str, source_name, seen, panicked, data, sink>>

Finish(op, ctx, r, src, in, out_expr, out_error) ==
    /\ IF r.ok
       THEN Store(out_expr, r.value) /\ UNCHANGED err
       ELSE /\ SaveError(out_error, Diag(r.cause, source_name[ctx]))
            /\ UNCHANGED <<exprLive, expr, views>>
    /\ last' = [Call(op, IF r.ok THEN NICKEL_RESULT_OK ELSE NICKEL_RESULT_ERR)
                   EXCEPT !.ctx = ctx, !.src = src, !.expr = in, !.out = out_expr,
                          !.err = out_error, !.ran = r.ran, !.value = r.value,
                          !.diag = IF r.ok THEN NoDiag ELSE Diag(r.cause, source_name[ctx])]
    /\ run' = [run EXCEPT ![ctx] = NoRun]
    /\ UNCHANGED <<errLive, strLive, str, source_name, seen, panicked, data, sink>>

nickel_context_eval_deep(ctx, src, out_expr, out_error) ==
    Finish("nickel_context_eval_deep", ctx, EvalSource(src, "deep"),
           src, NULL, out_expr, out_error)

nickel_context_eval_deep_for_export(ctx, src, out_expr, out_error) ==
    Finish("nickel_context_eval_deep_for_export", ctx, EvalSource(src, "export"),
           src, NULL, out_expr, out_error)

nickel_context_eval_shallow(ctx, src, out_expr, out_error) ==
    Finish("nickel_context_eval_shallow", ctx, EvalSource(src, "whnf"),
           src, NULL, out_expr, out_error)

(* The contents of s, which stay the string's. *)
nickel_string_data(s, p) ==
    /\ strLive[s]
    /\ KeepData(p, "string", s)
    /\ last' = [Call("nickel_string_data", Len(str[s]))
                   EXCEPT !.out = s, !.text = str[s], !.ptr = p]
    /\ UNCHANGED <<exprLive, expr, views, errLive, err, strLive, str, source_name, seen,
                   panicked, trace>>

nickel_context_eval_expr_shallow(ctx, e, out_expr, out_error) ==
    /\ exprLive[e]
    /\ Finish("nickel_context_eval_expr_shallow", ctx, EvalExprShallowResult(expr[e]),
              "", e, out_expr, out_error)

(* ------------------------------------------------------------------ *)
(* Views: nickel_expr_as_number / as_record / as_array                  *)
(* ------------------------------------------------------------------ *)
Borrow(op, h, v) ==
    /\ exprLive[h]
    /\ views' = [views EXCEPT ![v] = [owner |-> h, valid |-> TRUE]]
    /\ last' = [Call(op, v) EXCEPT !.expr = h]
    /\ UNCHANGED <<exprLive, expr, errLive, err, strLive, str, source_name, seen, rest>>

(* A panic: the call does not return, and the process is gone. *)
Panic(op, h, idx) ==
    /\ panicked' = TRUE
    /\ last' = [Call(op, 0) EXCEPT !.expr = h, !.idx = idx, !.panic = TRUE]
    /\ UNCHANGED <<exprLive, expr, views, errLive, err, strLive, str, source_name, seen,
                   data, trace>>

(* A call that only reads: it returns ret (and the string text). *)
Return(op, h, ret, text) ==
    /\ last' = [Call(op, ret) EXCEPT !.expr = h, !.text = text]
    /\ UNCHANGED <<exprLive, expr, views, errLive, err, strLive, str, source_name, seen, rest>>

(* Faulty variant: what is not a boolean reads as false. *)
nickel_expr_as_bool_lenient(h) ==
    /\ exprLive[h]
    /\ Return("nickel_expr_as_bool", h,
              IF is_bool(expr[h]) /\ Node[expr[h].node].val = "true" THEN 1 ELSE 0, << >>)

nickel_expr_as_bool(h) ==
    /\ exprLive[h]
    /\ IF is_bool(expr[h])
       THEN Return("nickel_expr_as_bool", h,
                   IF Node[expr[h].node].val = "true" THEN 1 ELSE 0, << >>)
       ELSE Panic("nickel_expr_as_bool", h, 0)

(* The string contents stay the handle's: the caller's pointer goes    *)
(* the way of the other references to data the handle owns.            *)
nickel_expr_as_str(h, v) ==
    /\ exprLive[h]
    /\ IF is_str(expr[h])
       THEN Borrow("nickel_expr_as_str", h, v)
       ELSE Panic("nickel_expr_as_str", h, 0)

nickel_expr_as_number(h, v) ==
    /\ exprLive[h]
    /\ IF is_number(expr[h])
       THEN Borrow("nickel_expr_as_number", h, v)
       ELSE Panic("nickel_expr_as_number", h, 0)

(* The tag is an interned string: the pointer is not the handle's. *)
nickel_expr_as_enum_tag(h, p) ==
    /\ exprLive[h]
    /\ IF is_enum_tag(expr[h])
       THEN /\ KeepData(p, "interned", h)
            /\ last' = [Call("nickel_expr_as_enum_tag", Len(Node[expr[h].node].val))
                           EXCEPT !.expr = h, !.text = Node[expr[h].node].val, !.ptr = p]
            /\ UNCHANGED <<exprLive, expr, views, errLive, err, strLive, str, source_name,
                           seen, panicked, trace>>
       ELSE Panic("nickel_expr_as_enum_tag", h, 0)

nickel_expr_as_record(h, v) ==
    /\ exprLive[h]
    /\ IF is_record(expr[h])
       THEN Borrow("nickel_expr_as_record", h, v)
       ELSE Panic("nickel_expr_as_record", h, 0)

nickel_expr_as_array(h, v) ==
    /\ exprLive[h]
    /\ IF is_array(expr[h])
       THEN Borrow("nickel_expr_as_array", h, v)
       ELSE Panic("nickel_expr_as_array", h, 0)

(* ------------------------------------------------------------------ *)
(* Reading a number                                                    *)
(* ------------------------------------------------------------------ *)
nickel_number_as_i64(v) ==
    /\ ValidView(v) /\ is_number(ViewContent(v))
    /\ LET c == ViewContent(v)
           q == Rational[c.node]
       IN IF nickel_number_is_i64(c)
          THEN Return("nickel_number_as_i64", views[v].owner, 0, Decimal(q.neg, q.num))
          ELSE Panic("nickel_number_as_i64", views[v].owner, 0)

nickel_number_as_rational(v, out_numerator, out_denominator) ==
    /\ ValidView(v) /\ is_number(ViewContent(v))
    /\ strLive[out_numerator] /\ strLive[out_denominator]
    /\ out_numerator # out_denominator
    /\ LET q == Rational[ViewContent(v).node]
       IN /\ str' = [str EXCEPT ![out_numerator] = Decimal(q.neg, q.num),
                                ![out_denominator] = Decimal(FALSE, q.den)]
          /\ data' = InvalidateData({out_numerator, out_denominator})
          /\ last' = [Call("nickel_number_as_rational", 0)
                         EXCEPT !.expr = views[v].owner, !.out = out_numerator,
                                !.idx = out_denominator]
    /\ UNCHANGED <<exprLive, expr, views, errLive, err, strLive, source_name, seen,
                   panicked, trace>>

(* ------------------------------------------------------------------ *)
(* Reading out of a view                                               *)
(* ------------------------------------------------------------------ *)
nickel_array_len(c) == Len(Visible(c))
nickel_record_len(c) == Len(Visible(c))

(* The node of the idx-th (0-based) entry of c, or NoNode. *)
KidAt(c, idx) == Node[c.node].kids[Visible(c)[idx + 1]]
KeyAt(c, idx) == Node[c.node].keys[Visible(c)[idx + 1]]

(* The 0-based index of key in record contents c, or -1. *)
IndexOfKey(c, key) ==
    LET hits == {i \in 0..(nickel_record_len(c) - 1) : KeyAt(c, i) = key}
    IN IF hits = {} THEN -1 ELSE Min(hits)

Extract(op, in, has, c, key, idx, out_expr) ==
    /\ IF has THEN Store(out_expr, c) ELSE UNCHANGED <<exprLive, expr, views>>
    /\ last' = [Call(op, IF has THEN 1 ELSE 0)
                   EXCEPT !.expr = in, !.out = out_expr, !.key = key, !.idx = idx]
    /\ UNCHANGED <<errLive, err, strLive, str, source_name, seen, rest>>

(* nickel_expr_as_enum_variant: the payload goes into out_expr, the    *)
(* tag is an interned string.                                          *)
ExtractTagged(in, c, key, out_expr, p) ==
    /\ Store(out_expr, c)
    /\ KeepData(p, "interned", in)
    /\ last' = [Call("nickel_expr_as_enum_variant", 1)
                   EXCEPT !.expr = in, !.out = out_expr, !.key = key, !.ptr = p]
    /\ UNCHANGED <<errLive, err, strLive, str, source_name, seen, panicked, trace>>

(* Faulty variant: an index past the end reads the last element. *)
nickel_array_get_clamped(v, idx, out_expr) ==
    /\ ValidView(v) /\ is_array(ViewContent(v))
    /\ out_expr # NULL
    /\ LET c == ViewContent(v)
           i == IF idx < nickel_array_len(c) THEN idx ELSE nickel_array_len(c) - 1
       IN Extract("nickel_array_get", views[v].owner, TRUE,
                  ChildContent(c, KidAt(c, i)), "", idx, out_expr)

nickel_array_get(v, idx, out_expr) ==
    /\ ValidView(v) /\ is_array(ViewContent(v))
    /\ out_expr # NULL
    /\ LET c == ViewContent(v)
       IN IF idx < nickel_array_len(c)
          THEN Extract("nickel_array_get", views[v].owner, TRUE,
                       ChildContent(c, KidAt(c, idx)), "", idx, out_expr)
          ELSE Panic("nickel_array_get", views[v].owner, idx)

nickel_record_key_value_by_index(v, idx, out_expr) ==
    /\ ValidView(v) /\ is_record(ViewContent(v))
    /\ LET c == ViewContent(v)
       IN IF idx < nickel_record_len(c)
          THEN LET kid == KidAt(c, idx)
               IN Extract("nickel_record_key_value_by_index", views[v].owner, kid # NoNode,
                          IF kid = NoNode THEN NoContent ELSE ChildContent(c, kid),
                          KeyAt(c, idx), idx, out_expr)
          ELSE Panic("nickel_record_key_value_by_index", views[v].owner, idx)

(* Faulty variant: a key that is there has a value, null if need be. *)
nickel_record_value_by_name_null(v, key, out_expr) ==
    /\ ValidView(v) /\ is_record(ViewContent(v))
    /\ LET c == ViewContent(v)
           idx == IndexOfKey(c, key)
           kid == IF idx < 0 THEN NoNode ELSE KidAt(c, idx)
       IN Extract("nickel_record_value_by_name", views[v].owner, idx >= 0,
                  IF kid = NoNode THEN NullContent ELSE ChildContent(c, kid),
                  key, 0, out_expr)

nickel_record_value_by_name(v, key, out_expr) ==
    /\ ValidView(v) /\ is_record(ViewContent(v))
    /\ LET c == ViewContent(v)
           idx == IndexOfKey(c, key)
           kid == IF idx < 0 THEN NoNode ELSE KidAt(c, idx)
       IN Extract("nickel_record_value_by_name", views[v].owner, kid # NoNode,
                  IF kid = NoNode THEN NoContent ELSE ChildContent(c, kid),
                  key, 0, out_expr)

nickel_expr_as_enum_variant(h, p, out_expr) ==
    /\ exprLive[h]
    /\ out_expr # NULL
    /\ IF is_enum_variant(expr[h])
       THEN ExtractTagged(h, ChildContent(expr[h], KidAt(expr[h], 0)),
                          Node[expr[h].node].val, out_expr, p)
       ELSE Panic("nickel_expr_as_enum_variant", h, 0)

(* ------------------------------------------------------------------ *)
(* Serialization                                                       *)
(* ------------------------------------------------------------------ *)
ExprTo(op, fmt, ctx, e, out_string, out_err) ==
    /\ exprLive[e] /\ strLive[out_string]
    /\ LET why == SerializeCause(expr[e])
           d == Diag(why, source_name[ctx])
       IN IF why = NoCause
          THEN /\ str' = [str EXCEPT ![out_string] = Tokens(expr[e], fmt)]
               /\ data' = InvalidateData({out_string})
               /\ UNCHANGED err
               /\ last' = [Call(op, NICKEL_RESULT_OK)
                              EXCEPT !.ctx = ctx, !.expr = e, !.out = out_string, !.err = out_err,
                                     !.text = str'[out_string]]
          ELSE /\ SaveError(out_err, d)
               /\ UNCHANGED <<str, data>>
               /\ last' = [Call(op, NICKEL_RESULT_ERR)
                              EXCEPT !.ctx = ctx, !.expr = e, !.out = out_string, !.err = out_err,
                                     !.diag = d]
    /\ UNCHANGED <<exprLive, expr, views, errLive, strLive, source_name, seen, panicked, trace>>

nickel_context_expr_to_json(ctx, e, out_string, out_err) ==
    ExprTo("nickel_context_expr_to_json", "json", ctx, e, out_string, out_err)

nickel_context_expr_to_yaml(ctx, e, out_string, out_err) ==
    ExprTo("nickel_context_expr_to_yaml", "yaml", ctx, e, out_string, out_err)

nickel_context_expr_to_toml(ctx, e, out_string, out_err) ==
    ExprTo("nickel_context_expr_to_toml", "toml", ctx, e, out_string, out_err)

(* ------------------------------------------------------------------ *)
(* Rendering an error                                                  *)
(* ------------------------------------------------------------------ *)
(* The caller keeps the text it was given, or the one it kept before. *)
Keep(e, format, text) ==
    \/ seen' = [err |-> e, format |-> format, diag |-> err[e], text |-> text]
    \/ seen' = seen

(* nickel_error_display hands the text to the write callback. *)
nickel_error_display(e, format) ==
    /\ errLive[e] /\ err[e] # NoDiag
    /\ last' = [Call("nickel_error_display", NICKEL_RESULT_OK)
                   EXCEPT !.err = e, !.text = Render(err[e], format), !.format = format]
    /\ Keep(e, format, Render(err[e], format))
    /\ UNCHANGED <<exprLive, expr, views, errLive, err, strLive, str, source_name, rest>>

nickel_error_format_as_string(e, out_string, format) ==
    /\ errLive[e] /\ err[e] # NoDiag
    /\ strLive[out_string]
    /\ str' = [str EXCEPT ![out_string] = Render(err[e], format)]
    /\ data' = InvalidateData({out_string})
    /\ last' = [Call("nickel_error_format_as_string", NICKEL_RESULT_OK)
                   EXCEPT !.err = e, !.out = out_string,
                          !.text = Render(err[e], format), !.format = format]
    /\ Keep(e, format, Render(err[e], format))
    /\ UNCHANGED <<exprLive, expr, views, errLive, err, strLive, source_name, panicked, trace>>

(* ------------------------------------------------------------------ *)
(* The callers                                                         *)
(* ------------------------------------------------------------------ *)
(* The context of a caller who uses one. *)
OneCtx == {Min(Ctxs)}

OutExprs == LiveExprs \cup {NULL}
OutErrors == LiveErrors \cup {NULL}
Keys == {"a", "f", "z", "q"}
Indices == 0..1

(* The callers of Spec and SpecErr ask the predicate, or the length,  *)
(* before they call an accessor.                                       *)
InBounds(v, i) == ValidView(v) /\ i < Len(Visible(ViewContent(v)))

(* Spec: callers of the expression handles and their views, who pass  *)
(* no error object.                                                    *)
Next ==
    \/ nickel_expr_alloc
    \/ \E h \in Exprs : nickel_expr_free(h)
    \/ \E c \in OneCtx, src \in Srcs, o \in OutExprs : nickel_context_eval_deep(c, src, o, NULL)
    \/ \E c \in OneCtx, src \in Srcs, o \in OutExprs :
          nickel_context_eval_deep_for_export(c, src, o, NULL)
    \/ \E c \in OneCtx, src \in Srcs, o \in OutExprs : nickel_context_eval_shallow(c, src, o, NULL)
    \/ \E c \in OneCtx, h \in Exprs, o \in OutExprs :
          nickel_context_eval_expr_shallow(c, h, o, NULL)
    \/ \E h \in Exprs, v \in Views : is_number(expr[h]) /\ nickel_expr_as_number(h, v)
    \/ \E h \in Exprs, v \in Views : is_record(expr[h]) /\ nickel_expr_as_record(h, v)
    \/ \E h \in Exprs, v \in Views : is_array(expr[h]) /\ nickel_expr_as_array(h, v)
    \/ \E v \in Views, i \in Indices, o \in LiveExprs :
          InBounds(v, i) /\ nickel_array_get(v, i, o)
    \/ \E v \in Views, i \in Indices, o \in OutExprs :
          InBounds(v, i) /\ nickel_record_key_value_by_index(v, i, o)
    \/ \E v \in Views, k \in Keys, o \in OutExprs :
          nickel_record_value_by_name(v, k, o)
    \/ \E h \in Exprs, o \in LiveExprs :
          is_enum_variant(expr[h]) /\ nickel_expr_as_enum_variant(h, NULL, o)

Spec == Init /\ [][Next]_vars

(* SpecErr: a caller who keeps one expression handle and passes an     *)
(* error object, or none, to every fallible call.                      *)
NextErr ==
    \/ LiveExprs = {} /\ nickel_expr_alloc
    \/ \E h \in Exprs : nickel_expr_free(h)
    \/ nickel_error_alloc
    \/ \E e \in Errors : nickel_error_free(e)
    \/ LiveStrings = {} /\ nickel_string_alloc
    \/ \E s \in Strings : nickel_string_free(s)
    \/ \E c \in OneCtx, src \in Srcs, o \in OutExprs, e \in OutErrors :
          nickel_context_eval_deep(c, src, o, e)
    \/ \E c \in OneCtx, src \in Srcs, o \in OutExprs, e \in OutErrors :
          nickel_context_eval_deep_for_export(c, src, o, e)
    \/ \E c \in OneCtx, src \in Srcs, o \in OutExprs, e \in OutErrors :
          nickel_context_eval_shallow(c, src, o, e)
    \/ \E c \in OneCtx, h \in Exprs, o \in OutExprs, e \in OutErrors :
          nickel_context_eval_expr_shallow(c, h, o, e)
    \/ \E h \in Exprs, v \in Views : is_record(expr[h]) /\ nickel_expr_as_record(h, v)
    \/ \E v \in Views, k \in Keys, o \in LiveExprs :
          nickel_record_value_by_name(v, k, o)
    \/ \E c \in OneCtx, h \in Exprs, s \in Strings, e \in OutErrors :
          nickel_context_expr_to_json(c, h, s, e)
    \/ \E c \in OneCtx, h \in Exprs, s \in Strings, e \in OutErrors :
          nickel_context_expr_to_yaml(c, h, s, e)
    \/ \E c \in OneCtx, h \in Exprs, s \in Strings, e \in OutErrors :
          nickel_context_expr_to_toml(c, h, s, e)

SpecErr == Init /\ [][NextErr]_vars

(* SpecAcc: a caller who calls the accessors and the indexed reads     *)
(* without asking first, until one of them panics.                     *)
AccIndices == 0..2

NextAcc ==
    /\ ~panicked
    /\ \/ nickel_expr_alloc
       \/ \E h \in Exprs : nickel_expr_free(h)
       \/ \E c \in OneCtx, src \in AccSrcs, o \in LiveExprs :
             nickel_context_eval_deep(c, src, o, NULL)
       \/ \E c \in OneCtx, src \in AccSrcs, o \in LiveExprs :
             nickel_context_eval_shallow(c, src, o, NULL)
       \/ \E h \in Exprs : nickel_expr_as_bool(h)
       \/ \E h \in Exprs, v \in Views : nickel_expr_as_str(h, v)
       \/ \E h \in Exprs, v \in Views : nickel_expr_as_number(h, v)
       \/ \E h \in Exprs : nickel_expr_as_enum_tag(h, NULL)
       \/ \E h \in Exprs, o \in LiveExprs : nickel_expr_as_enum_variant(h, NULL, o)
       \/ \E h \in Exprs, v \in Views : nickel_expr_as_record(h, v)
       \/ \E h \in Exprs, v \in Views : nickel_expr_as_array(h, v)
       \/ \E v \in Views, i \in AccIndices, o \in LiveExprs : nickel_array_get(v, i, o)
       \/ \E v \in Views, i \in AccIndices, o \in OutExprs :
             nickel_record_key_value_by_index(v, i, o)

SpecAcc == Init /\ [][NextAcc]_vars

(* SpecNum: a caller who evaluates numbers and reads them, as int64_t  *)
(* without asking first, and as rationals into two strings.            *)
NextNum ==
    /\ ~panicked
    /\ \/ LiveExprs = {} /\ nickel_expr_alloc
       \/ \E h \in Exprs : nickel_expr_free(h)
       \/ nickel_string_alloc
       \/ \E s \in Strings : nickel_string_free(s)
       \/ \E c \in OneCtx, src \in NumSrcs, o \in LiveExprs :
             nickel_context_eval_deep(c, src, o, NULL)
       \/ \E h \in Exprs, v \in Views : is_number(expr[h]) /\ nickel_expr_as_number(h, v)
       \/ \E v \in Views : nickel_number_as_i64(v)
       \/ \E v \in Views, n \in Strings, d \in Strings : nickel_number_as_rational(v, n, d)

SpecNum == Init /\ [][NextNum]_vars

(* SpecPtr: a caller who keeps pointers to string contents: of string *)
(* values, of enum tags and of the strings the serializer fills.       *)
PtrSrcs == {"p5", "p6", "p8"}

NextPtr ==
    \/ LiveExprs = {} /\ nickel_expr_alloc
    \/ \E h \in Exprs : nickel_expr_free(h)
    \/ LiveStrings = {} /\ nickel_string_alloc
    \/ \E s \in Strings : nickel_string_free(s)
    \/ \E c \in OneCtx, src \in PtrSrcs, o \in LiveExprs : nickel_context_eval_deep(c, src, o, NULL)
    \/ \E h \in Exprs, v \in Views : is_str(expr[h]) /\ nickel_expr_as_str(h, v)
    \/ \E h \in Exprs, p \in Ptrs : is_enum_tag(expr[h]) /\ nickel_expr_as_enum_tag(h, p)
    \/ \E h \in Exprs, p \in Ptrs, o \in LiveExprs :
          is_enum_variant(expr[h]) /\ nickel_expr_as_enum_variant(h, p, o)
    \/ \E s \in Strings, p \in Ptrs : nickel_string_data(s, p)
    \/ \E c \in OneCtx, h \in Exprs, s \in Strings : nickel_context_expr_to_json(c, h, s, NULL)

SpecPtr == Init /\ [][NextPtr]_vars

(* SpecTrace: two threads, one to a context, that install trace       *)
(* callbacks and evaluate sources that trace; a callback consumes any  *)
(* part of what it is offered.                                         *)
TraceSrcs == {"p9", "t1", "t2"}

(* How many bytes the callback running for ctx may consume. *)
Consumed(ctx) ==
    IF run[ctx].busy THEN 0..(Len(Head(run[ctx].msgs)) - run[ctx].off) ELSE {}

EvalSteps(c) ==
    \/ \E src \in TraceSrcs : EvalEnter("nickel_context_eval_deep", c, src, NULL, NULL)
    \/ TraceDiscard(c)
    \/ TraceOffer(c)
    \/ TraceFlush(c)
    \/ /\ Traced(c, "nickel_context_eval_deep")
       /\ nickel_context_eval_deep(c, run[c].src, run[c].out, run[c].err)

NextTrace ==
    \/ \E c \in Ctxs, k \in Sinks : nickel_context_set_trace_callback(c, k)
    \/ \E c \in Ctxs : EvalSteps(c)
    \/ \E c \in Ctxs : \E n \in Consumed(c) : TraceWrite(c, n)

SpecTrace == Init /\ [][NextTrace]_vars

(* SpecTraceFair: the same, with threads that keep running: an        *)
(* evaluation goes on until it returns, and so does a callback.        *)
Running(c) ==
    \/ TraceDiscard(c)
    \/ TraceOffer(c)
    \/ TraceFlush(c)
    \/ \E n \in Consumed(c) : TraceWrite(c, n)
    \/ /\ Traced(c, "nickel_context_eval_deep")
       /\ nickel_context_eval_deep(c, run[c].src, run[c].out, run[c].err)

SpecTraceFair == Init /\ [][NextTrace]_vars /\ \A c \in Ctxs : WF_vars(Running(c))

(* SpecCtx: two threads, one to a context, each with the handles of   *)
(* its own number: an expression handle, a view, an error object and   *)
(* a string, as far as there are that many.                            *)
CtxSrcs == {"p1", "p3"}

Own(c, S) == {c} \cap S
OwnOr(c, S) == Own(c, S) \cup {NULL}

NextCtx ==
    \/ nickel_expr_alloc
    \/ \E h \in Exprs : nickel_expr_free(h)
    \/ nickel_error_alloc
    \/ nickel_string_alloc
    \/ \E s \in Strings : nickel_string_free(s)
    \/ \E c \in Ctxs, name \in SourceNames : nickel_context_set_source_name(c, name)
    \/ \E c \in Ctxs : \E k \in Own(c, Sinks) : nickel_context_set_trace_callback(c, k)
    \/ \E c \in Ctxs, src \in CtxSrcs :
          \E o \in Own(c, LiveExprs), e \in OwnOr(c, LiveErrors) :
             nickel_context_eval_deep(c, src, o, e)
    \/ \E c \in Ctxs :
          \E h \in Own(c, Exprs), v \in Own(c, Views) :
             is_record(expr[h]) /\ nickel_expr_as_record(h, v)
    \/ \E c \in Ctxs :
          \E h \in Own(c, Exprs), s \in Own(c, Strings), e \in OwnOr(c, LiveErrors) :
             nickel_context_expr_to_json(c, h, s, e)

SpecCtx == Init /\ [][NextCtx]_vars

(* SpecRender: a caller who collects the errors of failing evaluations *)
(* and renders them, through the callback and into a string.           *)
NextRender ==
    \/ nickel_error_alloc
    \/ \E e \in Errors : nickel_error_free(e)
    \/ LiveStrings = {} /\ nickel_string_alloc
    \/ \E s \in Strings : nickel_string_free(s)
    \/ \E c \in OneCtx, name \in SourceNames : nickel_context_set_source_name(c, name)
    \/ \E c \in OneCtx, src \in Srcs, e \in OutErrors : nickel_context_eval_deep(c, src, NULL, e)
    \/ \E c \in OneCtx, src \in Srcs, e \in OutErrors : nickel_context_eval_shallow(c, src, NULL, e)
    \/ \E e \in Errors, f \in nickel_error_format : nickel_error_display(e, f)
    \/ \E e \in Errors, s \in Strings, f \in nickel_error_format :
          nickel_error_format_as_string(e, s, f)

SpecRender == Init /\ [][NextRender]_vars

(* ------------------------------------------------------------------ *)
(* Reading the last call                                               *)
(* ------------------------------------------------------------------ *)
EvalOps == {"nickel_context_eval_deep", "nickel_context_eval_deep_for_export",
            "nickel_context_eval_shallow", "nickel_context_eval_expr_shallow"}
ExtractOps == {"nickel_array_get", "nickel_record_key_value_by_index",
               "nickel_record_value_by_name", "nickel_expr_as_enum_variant"}
BorrowOps == {"nickel_expr_as_number", "nickel_expr_as_record", "nickel_expr_as_array",
              "nickel_expr_as_str"}

SerializeOps == {"nickel_context_expr_to_json", "nickel_context_expr_to_yaml",
                 "nickel_context_expr_to_toml"}
FallibleOps == EvalOps \cup SerializeOps

(* What the evaluator or the serializer makes of the input of call c,  *)
(* read in the state the call is made in.                              *)
Outcome(c) ==
    LET Of(r) == [ok |-> r.ok, cause |-> r.cause, value |-> r.value, text |-> << >>]
        Text(r) == [ok |-> r.ok, cause |-> r.cause, value |-> NoContent, text |-> r.text]
    IN CASE c.op = "nickel_context_eval_deep" -> Of(EvalSource(c.src, "deep"))
         [] c.op = "nickel_context_eval_deep_for_export" -> Of(EvalSource(c.src, "export"))
         [] c.op = "nickel_context_eval_shallow" -> Of(EvalSource(c.src, "whnf"))
         [] c.op = "nickel_context_eval_expr_shallow" -> Of(EvalExprShallowResult(expr[c.expr]))
         [] c.op = "nickel_context_expr_to_json" -> Text(SerializeResult(expr[c.expr], "json"))
         [] c.op = "nickel_context_expr_to_yaml" -> Text(SerializeResult(expr[c.expr], "yaml"))
         [] c.op = "nickel_context_expr_to_toml" -> Text(SerializeResult(expr[c.expr], "toml"))

(* Call c replaced the contents of handle h. *)
Wrote(c, h) ==
    /\ h # NULL /\ c.out = h
    /\ \/ c.op \in EvalOps /\ c.ret = NICKEL_RESULT_OK
       \/ c.op \in ExtractOps /\ c.ret = 1

(* Call c freed handle h. *)
Freed(c, h) == c.op = "nickel_expr_free" /\ c.expr = h

(* Call c put a new pointer into the caller's view variable v. *)
Borrowed(c, v) == c.op \in BorrowOps /\ c.ret = v

(* ------------------------------------------------------------------ *)
(* C1: a Number/Record/Array view obtained from a handle stays valid   *)
(* exactly as long as that handle is neither overwritten (a call wrote *)
(* it as out_expr) nor freed: each overwrite or free of the handle     *)
(* invalidates every view obtained from it, no other call invalidates  *)
(* one, and an invalidated view never becomes valid again.             *)
(* ------------------------------------------------------------------ *)
C1_ViewValidUntilOwnerOverwrittenOrFreed ==
    [][\A v \in Views :
          LET h == views[v].owner
          IN /\ Borrowed(last', v) =>
                  views'[v] = [owner |-> last'.expr, valid |-> TRUE]
             /\ (h # NULL /\ ~Borrowed(last', v)) =>
                  /\ views'[v].owner = h
                  /\ views'[v].valid <=>
                        (views[v].valid /\ ~Wrote(last', h) /\ ~Freed(last', h))]_vars

(* A view whose handle was overwritten by an evaluation: invalid, the handle live. *)
C1_Witness ==
    \E v \in Views :
        /\ views[v].owner # NULL /\ ~views[v].valid
        /\ exprLive[views[v].owner]
        /\ last.op = "nickel_context_eval_deep" /\ Wrote(last, views[v].owner)

(* ------------------------------------------------------------------ *)
(* C2: the set of live expression handles changes only by              *)
(* nickel_expr_alloc, which adds one handle, and nickel_expr_free,     *)
(* which removes one; an evaluation writing into out_expr leaves the   *)
(* set as it is, so one free per alloc releases everything.            *)
(* ------------------------------------------------------------------ *)
C2_LiveHandlesChangeOnlyByAllocAndFree ==
    [][/\ last'.op = "nickel_expr_alloc" =>
            (last'.ret \notin LiveExprs /\ LiveExprs' = LiveExprs \cup {last'.ret})
       /\ last'.op = "nickel_expr_free" =>
            (last'.expr \in LiveExprs /\ LiveExprs' = LiveExprs \ {last'.expr})
       /\ last'.op \notin {"nickel_expr_alloc", "nickel_expr_free"} =>
            LiveExprs' = LiveExprs]_vars

(* The only live handle has just been overwritten by a second kind of value. *)
C2_Witness ==
    /\ last.op \in EvalOps /\ last.out # NULL /\ last.ret = NICKEL_RESULT_OK
    /\ LiveExprs = {last.out}
    /\ is_record(expr[last.out])

(* ------------------------------------------------------------------ *)
(* C3: a handle filled from a view of a parent owns its data: a call   *)
(* that frees or overwrites another handle (the parent, say) leaves    *)
(* it live with the same tag and value, while the parent's view is     *)
(* invalidated.                                                        *)
(* ------------------------------------------------------------------ *)
C3_ExtractedHandleOutlivesParent ==
    [][\A h \in Exprs :
          (exprLive[h] /\ ~Wrote(last', h) /\ ~Freed(last', h)
             /\ last'.op # "nickel_expr_alloc")
            => (exprLive'[h] /\ expr'[h] = expr[h])]_vars

(* The parent was freed after a field was read out of its record view: *)
(* the view is invalid, the field's handle still holds the field.      *)
C3_Witness ==
    /\ last.op = "nickel_expr_free"
    /\ \E v \in Views, h \in Exprs :
          /\ views[v].owner = last.expr /\ ~views[v].valid
          /\ exprLive[h] /\ h # last.expr
          /\ expr[h].node \in {"sum", "arr", "some", "div"}

(* ------------------------------------------------------------------ *)
(* C4: every fallible call returns NICKEL_RESULT_OK or                 *)
(* NICKEL_RESULT_ERR, and which of the two depends on its input alone, *)
(* not on whether out_expr or the error handle is NULL; on OK a        *)
(* non-NULL output location holds the new result, on ERR a non-NULL    *)
(* error handle holds the diagnostic of that failure.                  *)
(* ------------------------------------------------------------------ *)
C4_Call ==
    last'.op \in FallibleOps =>
        LET c == last'
            r == Outcome(c)
        IN /\ c.ret \in nickel_result
           /\ c.ret = NICKEL_RESULT_OK <=> r.ok
           /\ (c.ret = NICKEL_RESULT_OK /\ c.out # NULL) =>
                  IF c.op \in EvalOps THEN expr'[c.out] = r.value
                                       ELSE str'[c.out] = r.text
           /\ (c.ret = NICKEL_RESULT_ERR /\ c.err # NULL) =>
                  err'[c.err] = Diag(r.cause, source_name[c.ctx])

FailedInto(c, e) == c.op \in FallibleOps /\ c.ret = NICKEL_RESULT_ERR /\ c.err = e

C5_Call ==
    \A e \in Errors :
        /\ FailedInto(last', e) =>
              (err'[e] = Diag(Outcome(last').cause, source_name[last'.ctx])
                 /\ err'[e] # NoDiag)
        /\ (~FailedInto(last', e) /\ errLive[e] /\ errLive'[e]) => err'[e] = err[e]
        /\ (~errLive[e] /\ errLive'[e]) => err'[e] = NoDiag

C5_ErrorHoldsLatestFailure == [][C5_Call]_vars

(* A serialization failed into an error object; the expression is a    *)
(* value, so the diagnostic is not one an evaluation left there.       *)
C5_Witness ==
    /\ last.op \in SerializeOps /\ last.ret = NICKEL_RESULT_ERR
    /\ last.err # NULL /\ err[last.err].cause = "non-serializable enum variant"

(* ------------------------------------------------------------------ *)
(* C10: nickel_context_expr_to_json / to_yaml / to_toml return         *)
(* NICKEL_RESULT_ERR whenever the expression contains, at any depth,   *)
(* an enum variant or an unevaluated sub-expression; the call returns  *)
(* (it is not fatal), saves the diagnostic in a non-NULL error handle  *)
(* and leaves the output string alone.                                 *)
(* ------------------------------------------------------------------ *)
RECURSIVE HasVariantOrThunk(_)
HasVariantOrThunk(c) ==
    \/ ~is_value(c)
    \/ is_enum_variant(c)
    \/ \E i \in 0..(Len(Visible(c)) - 1) :
          KidAt(c, i) # NoNode /\ HasVariantOrThunk(ChildContent(c, KidAt(c, i)))

C10_Call ==
    (last'.op \in SerializeOps /\ HasVariantOrThunk(expr[last'.expr])) =>
        /\ last'.ret = NICKEL_RESULT_ERR
        /\ last'.err # NULL => err'[last'.err] # NoDiag
        /\ str' = str

C10_SerializeRejectsVariantsAndThunks == [][C10_Call]_vars

(* Serializing the shallow { a = 1 + 1, b = [1, 2] }, a unforced, failed. *)
C10_Witness ==
    /\ last.op = "nickel_context_expr_to_json" /\ last.ret = NICKEL_RESULT_ERR
    /\ expr[last.expr] = Content("r1", "whnf")

(* ------------------------------------------------------------------ *)
(* C6: rendering an error (nickel_error_display,                       *)
(* nickel_error_format_as_string) leaves the error object as it is,    *)
(* and gives, in each format, the text that any earlier rendering of   *)
(* the same diagnostic in that format gave, whatever was rendered or   *)
(* called in between.                                                  *)
(* ------------------------------------------------------------------ *)
RenderOps == {"nickel_error_display", "nickel_error_format_as_string"}

C6_Call ==
    last'.op \in RenderOps =>
        /\ err' = err /\ errLive' = errLive
        /\ last'.ret = NICKEL_RESULT_OK
        /\ (seen.err = last'.err /\ seen.format = last'.format
              /\ seen.diag = err[last'.err]) => last'.text = seen.text
        /\ last'.op = "nickel_error_format_as_string" => str'[last'.out] = last'.text

InPlaceForce(c) ==
    c.op = "nickel_context_eval_expr_shallow" /\ c.expr # NULL /\ c.out = c.expr

(* What calling nickel_context_eval_expr_shallow on handle h now gives. *)
SecondCall(h) == EvalExprShallowResult(expr[h])

C7_NoOpOnValue ==
    (last'.op = "nickel_context_eval_expr_shallow" /\ is_value(expr[last'.expr])) =>
        /\ last'.ret = NICKEL_RESULT_OK
        /\ ~last'.ran
        /\ last'.out # NULL => expr'[last'.out] = expr[last'.expr]
        /\ expr'[last'.expr] = expr[last'.expr]

RECURSIVE AllEvaluated(_)
AllEvaluated(c) ==
    /\ is_value(c)
    /\ \A i \in 0..(Len(Visible(c)) - 1) :
          /\ KidAt(c, i) # NoNode
          /\ AllEvaluated(ChildContent(c, KidAt(c, i)))

C8_DeepResultFullyEvaluated ==
    /\ (last.op = "nickel_context_eval_deep" /\ last.ret = NICKEL_RESULT_OK
          /\ last.out # NULL) => AllEvaluated(expr[last.out])
    /\ (last.op \in {"nickel_record_key_value_by_index", "nickel_record_value_by_name"}
          /\ last.out # last.expr /\ exprLive[last.expr]
          /\ AllEvaluated(expr[last.expr])
          /\ IndexOfKey(expr[last.expr], last.key) >= 0)
         => (last.ret = 1 /\ (last.out # NULL => AllEvaluated(expr[last.out])))

(* The deep result of { v = 'Some (1 + 1), h | not_exported = true }. *)
C8_Witness ==
    /\ last.op = "nickel_context_eval_deep" /\ last.ret = NICKEL_RESULT_OK
    /\ last.out # NULL /\ expr[last.out].node = "r2"

(* ------------------------------------------------------------------ *)
(* C9 (as amended): after a successful nickel_context_eval_shallow the *)
(* result handle is a value; a field, element or payload read out of   *)
(* it that needs computation is not a value, and the handle holding it *)
(* stays not a value as long as no call overwrites or frees it; after  *)
(* a successful nickel_context_eval_expr_shallow the output handle is  *)
(* a value.                                                            *)
(* ------------------------------------------------------------------ *)
C9_ShallowResultIsValue ==
    (last'.op \in {"nickel_context_eval_shallow", "nickel_context_eval_expr_shallow"}
       /\ last'.ret = NICKEL_RESULT_OK /\ last'.out # NULL)
      => is_value(expr'[last'.out])

C9_LazyChildIsNotValue ==
    (last'.op \in ExtractOps /\ last'.ret = 1 /\ last'.out # NULL
       /\ expr[last'.expr].mode = "whnf"
       /\ Node[expr'[last'.out].node].lazy)
      => ~is_value(expr'[last'.out])

C9_ThunkStaysWhileHeld ==
    \A h \in Exprs :
        (exprLive[h] /\ ~is_value(expr[h]) /\ ~Wrote(last', h) /\ ~Freed(last', h))
          => (exprLive'[h] /\ ~is_value(expr'[h]))

C9_ShallowLeavesThunksUntilForced ==
    [][C9_ShallowResultIsValue /\ C9_LazyChildIsNotValue /\ C9_ThunkStaysWhileHeld]_vars

(* C9 as stated: the handle stays not a value in every later state (in *)
(* which it exists) until nickel_context_eval_expr_shallow is applied  *)
(* to it successfully.                                                 *)
C9_ThunkStaysUntilForced ==
    \A h \in Exprs :
        (exprLive[h] /\ ~is_value(expr[h]) /\ exprLive'[h]
           /\ ~(last'.op = "nickel_context_eval_expr_shallow" /\ last'.expr = h
                /\ last'.ret = NICKEL_RESULT_OK))
          => ~is_value(expr'[h])

C9_ShallowLeavesThunksUntilForcedOnly ==
    [][C9_ShallowResultIsValue /\ C9_LazyChildIsNotValue /\ C9_ThunkStaysUntilForced]_vars

(* Field a of the shallow { a = 1 + 1, b = [1, 2] } sits unforced in   *)
(* one handle while its forced value sits in another.                  *)
C9_Witness ==
    /\ last.op = "nickel_context_eval_expr_shallow" /\ last.ret = NICKEL_RESULT_OK
    /\ last.ran /\ last.out # NULL /\ last.out # last.expr
    /\ exprLive[last.expr] /\ ~is_value(expr[last.expr])
    /\ is_number(expr[last.out])

(* ------------------------------------------------------------------ *)
(* C11: a typed accessor called on a handle whose matching predicate   *)
(* is false panics: it returns nothing, the process is gone, and no    *)
(* error object, handle or view is touched; called on a handle whose   *)
(* matching predicate is true it returns.                              *)
(* ------------------------------------------------------------------ *)
AccessorOps == {"nickel_expr_as_bool", "nickel_expr_as_str", "nickel_expr_as_number",
                "nickel_expr_as_enum_tag", "nickel_expr_as_enum_variant",
                "nickel_expr_as_record", "nickel_expr_as_array"}

(* The predicate that matches accessor op, asked of contents c. *)
Matching(op, c) ==
    CASE op = "nickel_expr_as_bool" -> is_bool(c)
      [] op = "nickel_expr_as_str" -> is_str(c)
      [] op = "nickel_expr_as_number" -> is_number(c)
      [] op = "nickel_expr_as_enum_tag" -> is_enum_tag(c)
      [] op = "nickel_expr_as_enum_variant" -> is_enum_variant(c)
      [] op = "nickel_expr_as_record" -> is_record(c)
      [] op = "nickel_expr_as_array" -> is_array(c)

(* The step was fatal: no return, and nothing the caller holds changed. *)
Fatal ==
    /\ last'.panic /\ panicked'
    /\ err' = err /\ errLive' = errLive
    /\ expr' = expr /\ exprLive' = exprLive /\ views' = views /\ str' = str

C11_Call ==
    last'.op \in AccessorOps =>
        IF Matching(last'.op, expr[last'.expr])
        THEN ~last'.panic /\ ~panicked'
        ELSE Fatal

IndexedOps == {"nickel_array_get", "nickel_record_key_value_by_index"}

C12_Call ==
    last'.op \in IndexedOps =>
        LET c == expr[last'.expr]
            len == IF last'.op = "nickel_array_get"
                   THEN nickel_array_len(c) ELSE nickel_record_len(c)
            nd == Node[c.node]
            i == last'.idx
        IN IF i < len
           THEN /\ ~last'.panic /\ ~panicked'
                /\ last'.op = "nickel_array_get" =>
                      expr'[last'.out].node = nd.kids[i + 1]
                /\ last'.op = "nickel_record_key_value_by_index" =>
                      /\ last'.key = nd.keys[i + 1]
                      /\ (last'.ret = 1 /\ last'.out # NULL) =>
                            expr'[last'.out].node = nd.kids[i + 1]
           ELSE Fatal

C12_IndexingIsBoundsChecked == [][C12_Call]_vars

(* Index 2 of the array [1, 2]. *)
C12_Witness ==
    /\ panicked /\ last.panic /\ last.op = "nickel_array_get" /\ last.idx = 2
    /\ is_array(expr[last.expr]) /\ nickel_array_len(expr[last.expr]) = 2

(* ------------------------------------------------------------------ *)
(* C14: a handle holds exactly one tag: at most one of is_null,        *)
(* is_bool, is_number, is_str, is_enum_tag, is_enum_variant,           *)
(* is_record, is_array is true of it, and nickel_expr_is_value is true *)
(* exactly when one of them is.                                        *)
(* ------------------------------------------------------------------ *)
TagPredicates(c) ==
    <<is_null(c), is_bool(c), is_number(c), is_str(c), is_enum_tag(c),
      is_enum_variant(c), is_record(c), is_array(c)>>

TrueTags(c) == {i \in 1..Len(TagPredicates(c)) : TagPredicates(c)[i]}

I64Numbers == {"one", "two", "sum", "imax", "imin"}

C15_Classified ==
    \A v \in Views :
        (ValidView(v) /\ is_number(ViewContent(v))) =>
            (nickel_number_is_i64(ViewContent(v)) <=> ViewContent(v).node \in I64Numbers)

C15_Call ==
    LET c == expr[last'.expr]
        q == Rational[c.node]
    IN /\ last'.op = "nickel_number_as_i64" =>
            IF c.node \in I64Numbers
            THEN ~last'.panic /\ ~panicked' /\ last'.text = Decimal(q.neg, q.num)
            ELSE Fatal
       /\ last'.op = "nickel_number_as_rational" =>
            /\ ~last'.panic /\ ~panicked'
            /\ str'[last'.out] = Decimal(q.neg, q.num)
            /\ str'[last'.idx] = Decimal(FALSE, q.den)
            /\ c.node = "third" =>
                  /\ str'[last'.out] = <<"1">> /\ str'[last'.idx] = <<"3">>
                  /\ ~nickel_number_is_i64(c)
            /\ c.node = "imin" =>
                  str'[last'.out] = <<"-", "9", "2", "2", "3", "3", "7", "2", "0", "3", "6",
                                     "8", "5", "4", "7", "7", "5", "8", "0", "8">>

C15_NumberProjections == [](C15_Classified) /\ [][C15_Call]_vars

(* The rational projection of 1/3 has been written into two strings. *)
C15_Witness ==
    /\ last.op = "nickel_number_as_rational" /\ expr[last.expr].node = "third"
    /\ str[last.out] = <<"1">> /\ str[last.idx] = <<"3">>

(* ------------------------------------------------------------------ *)
(* C16: of the results of nickel_context_eval_deep and of              *)
(* nickel_context_eval_deep_for_export for the same source, the first  *)
(* has every field, the second every field but those marked            *)
(* not_exported, and the fields both have hold the same values.        *)
(* ------------------------------------------------------------------ *)
(* Handles h and k hold the deep result and the result for export of   *)
(* one source, a record.                                               *)
DeepAndExport(h, k) ==
    /\ exprLive[h] /\ exprLive[k]
    /\ is_record(expr[h]) /\ is_record(expr[k])
    /\ expr[h].node = expr[k].node
    /\ expr[h].mode = "deep" /\ expr[k].mode = "export"

(* The value the by-name lookup of key in record contents c gives. *)
FieldOf(c, key) == ChildContent(c, KidAt(c, IndexOfKey(c, key)))

C20_Call ==
    (last'.op \in FallibleOps /\ last'.ret = NICKEL_RESULT_ERR /\ last'.out # NULL) =>
        IF last'.op \in EvalOps
        THEN /\ exprLive'[last'.out] = exprLive[last'.out]
             /\ expr'[last'.out] = expr[last'.out]
             /\ \A v \in Views : views[v].owner = last'.out => views'[v] = views[v]
        ELSE /\ strLive'[last'.out] = strLive[last'.out]
             /\ str'[last'.out] = str[last'.out]

C20_FailureLeavesOutputUnchanged == [][C20_Call]_vars

(* An evaluation failed into a handle that holds a record, a view of   *)
(* which the caller keeps.                                             *)
C20_Witness ==
    /\ last.op \in EvalOps /\ last.ret = NICKEL_RESULT_ERR /\ last.out # NULL
    /\ is_record(expr[last.out])
    /\ \E v \in Views : views[v].owner = last.out /\ views[v].valid


(* ------------------------------------------------------------------ *)
(* C19: the string data nickel_expr_as_enum_tag and                    *)
(* nickel_expr_as_enum_variant return (the tag name) stays valid after *)
(* the owning handle is overwritten or freed, for the rest of the      *)
(* program; the string data nickel_expr_as_str or nickel_string_data   *)
(* returns becomes invalid as soon as the owning handle or string is   *)
(* freed or overwritten, and not before.                               *)
(* ------------------------------------------------------------------ *)
TagOps == {"nickel_expr_as_enum_tag", "nickel_expr_as_enum_variant"}

(* Call c put a new pointer into the caller's variable p. *)
Kept(c, p) == c.ptr = p /\ c.op \in TagOps \cup {"nickel_string_data"} /\ ~c.panic

(* Call c freed string s or replaced its contents. *)
StringGone(c, s) ==
    \/ c.op = "nickel_string_free" /\ c.out = s
    \/ c.op \in SerializeOps /\ c.ret = NICKEL_RESULT_OK /\ c.out = s
    \/ c.op = "nickel_error_format_as_string" /\ c.out = s
    \/ c.op = "nickel_number_as_rational" /\ s \in {c.out, c.idx}

C19_Interned == \A p \in Ptrs : data[p].kind = "interned" => data[p].valid

C19_Call ==
    /\ \A p \in Ptrs :
          /\ (Kept(last', p) /\ last'.op \in TagOps) =>
                data'[p] = [kind |-> "interned", owner |-> last'.expr, valid |-> TRUE]
          /\ (Kept(last', p) /\ last'.op = "nickel_string_data") =>
                data'[p] = [kind |-> "string", owner |-> last'.out, valid |-> TRUE]
          /\ (~Kept(last', p) /\ data[p].kind = "interned") => data'[p] = data[p]
          /\ (~Kept(last', p) /\ data[p].kind = "string") =>
                /\ data'[p].kind = "string" /\ data'[p].owner = data[p].owner
                /\ data'[p].valid <=>
                      (data[p].valid /\ ~StringGone(last', data[p].owner))
    /\ \A v \in Views :
          (ValidView(v) /\ is_str(ViewContent(v)) /\ ~Borrowed(last', v)) =>
              (views'[v].valid <=>
                  (~Wrote(last', views[v].owner) /\ ~Freed(last', views[v].owner)))

C19_StringDataValidity == [](C19_Interned) /\ [][C19_Call]_vars

(* A tag pointer still valid though its handle is freed, a pointer     *)
(* into a string that is gone, and a string value's pointer that went  *)
(* with its handle.                                                    *)
C19_Witness ==
    /\ \E p \in Ptrs :
          data[p].kind = "interned" /\ data[p].valid /\ ~exprLive[data[p].owner]
    /\ \E p \in Ptrs : data[p].kind = "string" /\ ~data[p].valid
    /\ \E v \in Views : views[v].owner # NULL /\ ~views[v].valid

(* ------------------------------------------------------------------ *)
(* C13: streaming through a write callback tolerates partial           *)
(* consumption: when the callback consumes fewer bytes than offered,   *)
(* the remainder is offered again, and the consumed prefixes, one      *)
(* after the other, make up the complete byte sequence, in order, no   *)
(* byte skipped or repeated; the delivery completes as long as each    *)
(* invocation consumes at least one byte.                              *)
(* ------------------------------------------------------------------ *)
(* A message of context c is on its way to the callback. *)
Pending(c) == run[c].active /\ run[c].msgs # << >> /\ sink[c] # NULL

(* What the callback has consumed is what the writer has got rid of. *)
C13_InOrder ==
    \A c \in Ctxs :
        Pending(c) =>
            /\ run[c].off <= Len(Head(run[c].msgs))
            /\ run[c].sent = SubSeq(Head(run[c].msgs), 1, run[c].off)

C13_Call ==
    LET c == last'.ctx
        msg == Head(run[c].msgs)
    IN /\ last'.op = "nickel_write_callback" =>
             /\ last'.idx = Len(msg) - run[c].off
             /\ last'.ret = Len(last'.text) /\ last'.ret <= last'.idx
             /\ last'.text = SubSeq(msg, run[c].off + 1, run[c].off + last'.ret)
             /\ run'[c].off = run[c].off + last'.ret
             /\ (last'.ret < last'.idx) =>
                   (run'[c].active /\ run'[c].msgs = run[c].msgs /\ sink'[c] # NULL)
       /\ last'.op = "nickel_flush_callback" => last'.text = msg

(* The callback of the last invocation consumed nothing. *)
Stalled == last.op = "nickel_write_callback" /\ last.ret = 0

C13_PartialWritesDeliverAll ==
    /\ [](C13_InOrder)
    /\ [][C13_Call]_vars
    /\ ([](~Stalled) => \A c \in Ctxs : Pending(c) ~> ~Pending(c))

(* Of the four bytes of a message two were consumed, then one of the   *)
(* two left, and now one byte is left to offer.                        *)
C13_Witness ==
    /\ last.op = "nickel_write_callback" /\ last.idx = 2 /\ last.ret = 1
    /\ run[last.ctx].sent = <<"a", "b", "c">>
    /\ Pending(last.ctx)

(* ------------------------------------------------------------------ *)
(* C18: a trace callback is invoked only while an evaluation on its    *)
(* context is in progress, by the thread of that call, and one         *)
(* invocation at a time; the callback invoked is the one installed     *)
(* last with nickel_context_set_trace_callback, which replaces the one *)
(* before; a context without a callback gets no invocation at all.     *)
(* ------------------------------------------------------------------ *)
CallbackOps == {"offer", "nickel_write_callback", "nickel_flush_callback"}

C18_Call ==
    LET c == last'.ctx
    IN /\ last'.op \in CallbackOps =>
             /\ run[c].active /\ run'[c].active
             /\ sink[c] # NULL /\ last'.out = sink[c]
       /\ last'.op = "nickel_context_set_trace_callback" =>
             sink' = [sink EXCEPT ![c] = last'.out]
       /\ last'.op # "nickel_context_set_trace_callback" => sink' = sink
       /\ \A d \in Ctxs :
             (run[d].busy /\ c = d) =>
                 (last'.op = "nickel_write_callback" /\ ~run'[d].busy)

C18_TraceSinkDuringEvaluation == [][C18_Call]_vars

(* The callback of one context has returned from an invocation with    *)
(* the user data installed for it, while an evaluation on a context    *)
(* without a callback is under way.                                    *)
C18_Witness ==
    \E c \in Ctxs, d \in Ctxs :
        /\ last.op = "nickel_write_callback" /\ last.ctx = c /\ last.ret > 0
        /\ sink[c] = 2 /\ last.out = 2
        /\ sink[d] = NULL /\ run[d].active /\ run[d].src = "t2" /\ Len(run[d].msgs) = 1

(* ------------------------------------------------------------------ *)
(* C17: distinct contexts are independent: in every interleaving of    *)
(* the operations on two contexts and on their own expression, error   *)
(* and string handles, no operation on one context changes the trace   *)
(* callback, the source name or a handle of the other, and each call   *)
(* returns what the state of its own context and handles makes it      *)
(* return, as if the operations of that context had run alone.         *)
(* ------------------------------------------------------------------ *)
(* The thread call c was made by: the one of its context, or of the    *)
(* handle it is about.                                                 *)
Actor(c) ==
    IF c.ctx # NULL THEN c.ctx
    ELSE CASE c.op \in {"nickel_expr_alloc", "nickel_error_alloc", "nickel_string_alloc"}
                 -> c.ret
           [] c.op \in {"nickel_expr_free", "nickel_expr_as_record"} -> c.expr
           [] c.op = "nickel_string_free" -> c.out
           [] OTHER -> NULL

(* The step leaves alone what belongs to context d. *)
Untouched(d) ==
    /\ source_name'[d] = source_name[d] /\ sink'[d] = sink[d] /\ run'[d] = run[d]
    /\ \A h \in Own(d, Exprs) :
          /\ exprLive'[h] = exprLive[h] /\ expr'[h] = expr[h]
          /\ \A v \in Views : views[v].owner = h => views'[v] = views[v]
    /\ \A e \in Own(d, Errors) : errLive'[e] = errLive[e] /\ err'[e] = err[e]
    /\ \A s \in Own(d, Strings) : strLive'[s] = strLive[s] /\ str'[s] = str[s]

C17_Call ==
    /\ \A d \in Ctxs : Actor(last') # d => Untouched(d)
    /\ last'.op \in FallibleOps =>
          LET r == Outcome(last')
          IN /\ last'.ret = NICKEL_RESULT_OK <=> r.ok
             /\ last'.diag = IF r.ok THEN NoDiag
                             ELSE Diag(r.cause, source_name[last'.ctx])
             /\ (r.ok /\ last'.op \in EvalOps) => expr'[last'.out] = r.value
             /\ (r.ok /\ last'.op \in SerializeOps) => str'[last'.out] = r.text
             /\ (~r.ok /\ last'.err # NULL) => err'[last'.err] = last'.diag

C17_ContextsAreIndependent == [][C17_Call]_vars

(* An evaluation on the second context has failed under that context's *)
(* own (empty) source name, while the first context has a name and a   *)
(* callback, and its error object a diagnostic under its name.         *)
C17_Witness ==
    /\ last.op = "nickel_context_eval_deep" /\ last.ctx = 2
    /\ last.ret = NICKEL_RESULT_ERR /\ last.diag.name = NoName
    /\ source_name[1] = "main.ncl" /\ sink[1] = 1 /\ sink[2] = NULL
    /\ errLive[1] /\ err[1].name = "main.ncl"
    /\ exprLive[1] /\ is_record(expr[1]) /\ exprLive[2]

(* ------------------------------------------------------------------ *)
(* C21: the two record lookups agree and are stable: when              *)
(* nickel_record_key_value_by_index at an index below                  *)
(* nickel_record_len yields key k, nickel_record_value_by_name on k    *)
(* returns the same has-value flag and the same value; the key at each *)
(* index stays while the parent handle is neither overwritten nor      *)
(* freed; and nickel_record_value_by_name on a key the record does not *)
(* contain returns 0 and does not write out_expr.                      *)
(* ------------------------------------------------------------------ *)
ByIndex(c) == c.op = "nickel_record_key_value_by_index" /\ ~c.panic
ByName(c) == c.op = "nickel_record_value_by_name"

(* The indices of record contents rec at which the key is k. *)
IndicesOf(rec, k) == {i \in 0..(nickel_record_len(rec) - 1) : KeyAt(rec, i) = k}

(* Call c gave what the entry at index i of rec holds. *)
GaveEntry(c, rec, i) ==
    /\ c.ret = IF KidAt(rec, i) = NoNode THEN 0 ELSE 1
    /\ (c.ret = 1 /\ c.out # NULL) => expr'[c.out] = ChildContent(rec, KidAt(rec, i))
    /\ c.ret = 0 => (expr' = expr /\ exprLive' = exprLive /\ views' = views)

C21_Call ==
    LET c == last'
        rec == expr[c.expr]
    IN /\ ByIndex(c) =>
             /\ c.idx < nickel_record_len(rec)
             /\ c.key = KeyAt(rec, c.idx)
             /\ GaveEntry(c, rec, c.idx)
       /\ ByName(c) =>
             /\ \A i \in IndicesOf(rec, c.key) : GaveEntry(c, rec, i)
             /\ IndicesOf(rec, c.key) = {} =>
                   /\ c.ret = 0
                   /\ expr' = expr /\ exprLive' = exprLive /\ views' = views
       /\ (ByName(c) /\ ByIndex(last) /\ last.expr = c.expr /\ last.key = c.key) =>
             /\ c.ret = last.ret
             /\ (c.ret = 1 /\ c.out # NULL /\ last.out # NULL) =>
                   expr'[c.out] = expr[last.out]
       /\ \A v \in Views :
             LET h == views[v].owner
             IN (ValidView(v) /\ is_record(expr[h])
                    /\ ~Wrote(c, h) /\ ~Freed(c, h)) =>
                   /\ nickel_record_len(expr'[h]) = nickel_record_len(expr[h])
                   /\ \A i \in 0..(nickel_record_len(expr[h]) - 1) :
                         KeyAt(expr'[h], i) = KeyAt(expr[h], i)

C21_RecordLookupsAgree == [][C21_Call]_vars

(* The field read by index into one handle has just been read by its   *)
(* name into the parent, which now holds the same contents.            *)
C21_Witness ==
    /\ ByName(last) /\ last.ret = 1 /\ last.key = "f"
    /\ last.out = last.expr
    /\ \E o \in LiveExprs : o # last.out /\ expr[o] = expr[last.out]
    /\ ~is_value(expr[last.out])

(* ------------------------------------------------------------------ *)
(* C22: traceCallbackTrampoline is pure glue: for every context, buf   *)
(* and len it calls traceCallback once, with the same context, the     *)
(* same buffer and the same len, and returns what traceCallback        *)
(* returns; it does not write to the buffer, and it does not call      *)
(* again after a short count.                                          *)
(* ------------------------------------------------------------------ *)
(* What the writer of context c is offering. *)
Offered(c) == SubSeq(Head(run[c].msgs), run[c].off + 1, Len(Head(run[c].msgs)))

(* Whatever the callback does with what it is offered, the trampoline  *)
(* gives what the callback, called directly, gives.                    *)
C22_Glue ==
    \A c \in Ctxs : \A n \in Consumed(c) :
        traceCallbackTrampoline(sink[c], Offered(c), Len(Offered(c)), n)
            = traceCallback(sink[c], Offered(c), Len(Offered(c)), n)

(* An invocation through the trampoline is one invocation of the       *)
(* callback: one consumed prefix, its count, and the message as it was. *)
C22_Call ==
    last'.op = "nickel_write_callback" =>
        LET c == last'.ctx
        IN \E n \in Consumed(c) :
              LET r == traceCallback(sink[c], Offered(c), Len(Offered(c)), n)
              IN /\ last'.out = r.context /\ last'.idx = r.len
                 /\ last'.text = r.bytes /\ last'.ret = r.ret
                 /\ run'[c].sent = run[c].sent \o r.bytes
                 /\ run'[c].off = run[c].off + r.ret
                 /\ run'[c].msgs = run[c].msgs
                 /\ ~run'[c].busy

C22_TrampolineIsGlue == [](C22_Glue) /\ [][C22_Call]_vars

(* The callback took two of the four bytes it was first offered, and   *)
(* the trampoline has returned 2: the writer is left with the rest.    *)
C22_Witness ==
    /\ last.op = "nickel_write_callback" /\ last.idx = 4 /\ last.ret = 2
    /\ last.text = <<"a", "b">> /\ last.out = sink[last.ctx]
    /\ run[last.ctx].off = 2 /\ ~run[last.ctx].busy
    /\ Offered(last.ctx) = <<"c", "d">>

====
